---- MODULE Spec2Model ----
(***************************************************************************)
(* Model of main.py of the Video-Summarizer-API: the URL identifier       *)
(* extractor get_video_id and the POST /summarize handler summarize_video *)
(* with its transcript fetch and its three generative stages.             *)
(*                                                                         *)
(* Python str values are TLA+ strings (Len, SubSeq and \o act on them as  *)
(* len, slicing and + do).  Python None is the marker string None.        *)
(***************************************************************************)
EXTENDS Integers, Sequences, FiniteSets, TLC

\* ------------------------------------------------------------------------
\* Bounds
\* ------------------------------------------------------------------------

\* number of POST /summarize requests that may be in flight together
NumReq == 2

\* number of segments an input string of the extractor is built from
MaxSegs == 4

\* ------------------------------------------------------------------------
\* Values
\* ------------------------------------------------------------------------

\* Python None
None == "<None>"

\* a local of summarize_video that has not been assigned yet
Unbound == "<unbound>"

Requests == 1..NumReq

\* ------------------------------------------------------------------------
\* get_video_id (main.py 40-52)
\* ------------------------------------------------------------------------

Digits == {"0","1","2","3","4","5","6","7","8","9"}

Upper == {"A","B","C","D","E","F","G","H","I","J","K","L","M",
          "N","O","P","Q","R","S","T","U","V","W","X","Y","Z"}

Lower == {"a","b","c","d","e","f","g","h","i","j","k","l","m",
          "n","o","p","q","r","s","t","u","v","w","x","y","z"}

\* the same class without "_" and "-": [0-9A-Za-z]
TokenCharsAlnum == Digits \cup Upper \cup Lower

\* the character class [0-9A-Za-z_-]
TokenChars == Digits \cup Upper \cup Lower \cup {"_", "-"}

\* the repetition count {11}
TokenLen == 11

\* r'(?:v=|\/)([0-9A-Za-z_-]{11}).*' : the alternatives of the non-capturing
\* group in the order the regex tries them; the trailing .* matches the
\* empty string at least, so it never decides whether the pattern matches
\* nor what group 1 holds.
Pattern1 == [alts |-> <<"v=", "/">>]

\* r'(?:youtu\.be\/)([0-9A-Za-z_-]{11})'
Pattern2 == [alts |-> <<"youtu.be/">>]

\* s[i-1 : i-1+n] == lit, with i counted from 1
LiteralAt(s, i, lit) ==
    /\ i + Len(lit) - 1 <= Len(s)
    /\ SubSeq(s, i, i + Len(lit) - 1) = lit

\* ([0-9A-Za-z_-]{11}) matches at position i of s
ClassRunAt(s, i) ==
    /\ i + TokenLen - 1 <= Len(s)
    /\ \A k \in 0..(TokenLen - 1) : SubSeq(s, i + k, i + k) \in TokenChars

\* the alternatives of pattern p with which p matches s starting at i
AltsAt(p, s, i) ==
    {k \in 1..Len(p.alts) :
        /\ LiteralAt(s, i, p.alts[k])
        /\ ClassRunAt(s, i + Len(p.alts[k]))}

\* the start positions at which p matches s
MatchStarts(p, s) == {i \in 1..Len(s) : AltsAt(p, s, i) # {}}

SetMin(S) == CHOOSE i \in S : \A j \in S : i <= j

SetMax(S) == CHOOSE i \in S : \A j \in S : i >= j

\* group 1 of the match of p on s that starts at i (first alternative that
\* matches there)
Group1At(p, s, i) ==
    LET k == SetMin(AltsAt(p, s, i))
        g == i + Len(p.alts[k])
    IN  SubSeq(s, g, g + TokenLen - 1)

\* a search that reports the last match in the string
re_search_rightmost(p, s) ==
    LET starts == MatchStarts(p, s)
    IN  IF starts = {}
        THEN [found |-> FALSE, group1 |-> None]
        ELSE [found |-> TRUE, group1 |-> Group1At(p, s, SetMax(starts))]

\* re.search(pattern, url): the leftmost match, or no match
re_search(p, s) ==
    LET starts == MatchStarts(p, s)
    IN  IF starts = {}
        THEN [found |-> FALSE, group1 |-> None]
        ELSE [found |-> TRUE, group1 |-> Group1At(p, s, SetMin(starts))]

\* the loop of get_video_id over a list of patterns
FirstCapture(patterns, url) ==
    LET hits == {n \in 1..Len(patterns) : re_search(patterns[n], url).found}
    IN  IF hits = {}
        THEN None
        ELSE re_search(patterns[SetMin(hits)], url).group1

\* get_video_id with the share-link pattern tried first
get_video_id_share_first(url) == FirstCapture(<<Pattern2, Pattern1>>, url)

\* get_video_id(url)
get_video_id(url) == FirstCapture(<<Pattern1, Pattern2>>, url)

\* ------------------------------------------------------------------------
\* Inputs of the extractor: strings built from at most MaxSegs segments
\* ------------------------------------------------------------------------

Segments ==
    << "https://www.youtube.com/watch?",
       "https://youtu.be/",
       "v=",
       "/",
       "JDYtbVxtBhw",
       "a-b_c-d_e-f",
       "?t=5",
       "youtu.be/",
       "not a url",
       "shorts" >>

RECURSIVE Concat(_)
Concat(ss) == IF ss = <<>> THEN "" ELSE Head(ss) \o Concat(Tail(ss))

SegChoices == UNION {[1..n -> 1..Len(Segments)] : n \in 0..MaxSegs}

UrlInputs == {Concat([i \in DOMAIN c |-> Segments[c[i]]]) : c \in SegChoices}

\* ------------------------------------------------------------------------
\* Stage configurations (main.py 54-96)
\* ------------------------------------------------------------------------

\* get_analyst(): a fresh Agent configuration
get_analyst ==
    [name |-> "Transcript Analyst",
     role |-> "Extracts logical segments and raw data from captions",
     model |-> "llama-3.3-70b-versatile",
     tools |-> <<>>,
     instructions |->
        <<"Clean filler words from the transcript.",
          "Divide the content into logical chapters based on the flow of conversation.",
          "Extract all specific entities like tools, links, or names mentioned.">>]

\* get_miner(): a fresh Agent configuration with the web-search tool
get_miner ==
    [name |-> "Insight Miner",
     role |-> "Identifies deep insights and the 'why' behind the video",
     model |-> "llama-3.3-70b-versatile",
     tools |-> <<"DuckDuckGo">>,
     instructions |->
        <<"Identify the top 3-5 unique insights or 'Gold Nuggets'.",
          "Determine the creator's tone and the target audience.",
          "Highlight the primary problem and solution discussed.">>]

\* the Agent that get_editor() builds and binds to its local `editor`
LeadEditor ==
    [name |-> "Lead Editor",
     role |-> "Final Writer",
     model |-> "llama-3.3-70b-versatile",
     tools |-> <<>>,
     instructions |->
        <<"Receive the analysis from the Analyst and Miner.",
          "Format the final output into professional Markdown.",
          "Start with a 'TL;DR' section.",
          "Follow with a 'Detailed Breakdown' using headers.",
          "End with a 'Key Takeaways' checklist.",
          "Ensure the summary is concise and removes any fluff.">>]

\* get_editor(): the body assigns the Agent to a local and ends without a
\* return statement, so the call evaluates to None
get_editor ==
    LET editor == LeadEditor
    IN  None

\* ------------------------------------------------------------------------
\* Text helpers of summarize_video
\* ------------------------------------------------------------------------

\* str(i) for the indices a transcript of the model can have
IndexStr(i) == <<"0", "1", "2", "3">>[i + 1]

RECURSIVE JoinTexts(_)
JoinTexts(snips) ==
    IF snips = <<>> THEN ""
    ELSE IF Len(snips) = 1 THEN Head(snips).text
    ELSE Head(snips).text \o " " \o JoinTexts(Tail(snips))

\* " ".join([snippet.text for snippet in transcript_list]): the joined
\* string, or the TypeError str.join raises at the first item that is not a
\* str
Flatten(snips) ==
    LET bad == {i \in 1..Len(snips) : snips[i].text = None}
    IN  IF bad # {}
        THEN [raised |-> TRUE,
              cause |-> "sequence item " \o IndexStr(SetMin(bad) - 1)
                         \o ": expected str instance, NoneType found",
              value |-> None]
        ELSE [raised |-> FALSE, cause |-> None, value |-> JoinTexts(snips)]

StructureHeader == "Here is the structural analysis of the video:\n"

InsightsHeader == "Here are the deep insights found:\n"

CompileInstruction == "Please compile this into the final report."

\* the f-string of lines 144-148
CombinedContext(structure, insights) ==
    StructureHeader \o structure \o "\n\n"
        \o InsightsHeader \o insights \o "\n\n"
        \o CompileInstruction

\* str(e) of the AttributeError raised by None.run(...)
NoneTypeRunError == "'NoneType' object has no attribute 'run'"

\* ------------------------------------------------------------------------
\* Responses
\* ------------------------------------------------------------------------

NoResponse ==
    [status |-> 0, video_id |-> None, summary |-> None, detail |-> None]

\* HTTPException(status_code=400, detail="Invalid YouTube URL")
BadRequest ==
    [status |-> 400, video_id |-> None, summary |-> None,
     detail |-> "Invalid YouTube URL"]

\* a fetch failure reported as a server error without its cause
TranscriptUnavailableOpaque(cause) ==
    [status |-> 500, video_id |-> None, summary |-> None,
     detail |-> "Transcript unavailable"]

\* HTTPException(status_code=404, detail=f"Transcript unavailable: {str(e)}")
TranscriptUnavailable(cause) ==
    [status |-> 404, video_id |-> None, summary |-> None,
     detail |-> "Transcript unavailable: " \o cause]

\* a generation failure reported without the text of its cause
GenerationErrorNoCause(cause) ==
    [status |-> 500, video_id |-> None, summary |-> None,
     detail |-> "AI Generation Error"]

\* HTTPException(status_code=500, detail=f"AI Generation Error: {str(e)}")
GenerationError(cause) ==
    [status |-> 500, video_id |-> None, summary |-> None,
     detail |-> "AI Generation Error: " \o cause]

\* SummaryResponse(video_id=video_id, summary=final_response.content)
SummaryResponse(vid, content) ==
    [status |-> 200, video_id |-> vid, summary |-> content, detail |-> None]

\* ------------------------------------------------------------------------
\* What the external collaborators may answer
\* ------------------------------------------------------------------------

RequestUrls ==
    {"https://www.youtube.com/watch?v=JDYtbVxtBhw",
     "https://youtu.be/a-b_c-d_e-f?t=5",
     "not a url"}

Transcripts ==
    { <<[text |-> "Hello"], [text |-> "world"]>>,
      <<[text |-> "one"]>>,
      <<[text |-> "Hello"], [text |-> None]>> }

ConstructCauses == {"proxy configuration rejected"}

FetchCauses == {"no captions for this video", "proxy unreachable"}

\* outcomes of lines 110-117: building the client raises, fetch raises, or
\* fetch returns the snippets
FetchOutcomes ==
    {[kind |-> "construct_raises", cause |-> c, snippets |-> <<>>] :
        c \in ConstructCauses}
    \cup {[kind |-> "fetch_raises", cause |-> c, snippets |-> <<>>] :
        c \in FetchCauses}
    \cup {[kind |-> "returns", cause |-> None, snippets |-> t] :
        t \in Transcripts}

AnalystContents == {"chapters: intro, demo", "chapters: setup"}

MinerContents == {"insight: measure first"}

EditorContents == {"## TL;DR\n## Detailed Breakdown\n## Key Takeaways"}

GenCauses == {"rate limit exceeded"}

\* outcomes of agent.run(...): it raises, or it returns a RunResponse
GenOutcomes(contents) ==
    {[raised |-> TRUE, cause |-> c, content |-> None] : c \in GenCauses}
    \cup {[raised |-> FALSE, cause |-> None, content |-> t] : t \in contents}

\* ------------------------------------------------------------------------
\* State
\* ------------------------------------------------------------------------

VARIABLES
    pc,                \* position of each request in summarize_video
    url,               \* request.url
    video_id,          \* local video_id
    caption_text,      \* local caption_text
    raw_structure,     \* local raw_structure
    raw_insights,      \* local raw_insights
    combined_context,  \* local combined_context
    response,          \* what the request answered
    steps,             \* the steps each request began, in order
    calls,             \* the external invocations each request made, in order
    in_url,            \* argument of a direct call of get_video_id
    out_id,            \* its result
    xpc                \* "call" before it returns, "returned" after

vars == <<pc, url, video_id, caption_text, raw_structure, raw_insights,
          combined_context, response, steps, calls, in_url, out_id, xpc>>

reqvars == <<pc, url, video_id, caption_text, raw_structure, raw_insights,
             combined_context, response, steps, calls>>

xvars == <<in_url, out_id, xpc>>

\* an assignment that writes one module-level variable shared by all
\* requests
BindGlobal(f, r, v) == [q \in DOMAIN f |-> v]

\* an assignment to a local of request r's invocation of summarize_video
Bind(f, r, v) == [f EXCEPT ![r] = v]

\* `not video_id` without the None case
IsFalsyNever(v) == v = ""

\* `not video_id` (line 104)
IsFalsy(v) == v = None \/ v = ""

StepOrder == <<"extract", "fetch", "analyst", "miner", "editor">>

StepIndex(step) == CHOOSE i \in 1..Len(StepOrder) : StepOrder[i] = step

\* control flow in which a failed step is swallowed and the next one runs
PcAfterSwallow(step, ok) ==
    IF StepIndex(step) = Len(StepOrder) THEN "done"
    ELSE StepOrder[StepIndex(step) + 1]

\* where the handler continues after a step: a raise leaves the handler
\* (lines 105, 123-124, 160-161), the return of line 155 ends it, and
\* otherwise the next statement runs
PcAfter(step, ok) ==
    IF ~ok \/ StepIndex(step) = Len(StepOrder) THEN "done"
    ELSE StepOrder[StepIndex(step) + 1]

Call(fn, arg, raised, cause, content, snippets) ==
    [fn |-> fn, arg |-> arg, raised |-> raised, cause |-> cause,
     content |-> content, snippets |-> snippets]

Init ==
    /\ pc = [r \in Requests |-> "idle"]
    /\ url = [r \in Requests |-> Unbound]
    /\ video_id = [r \in Requests |-> Unbound]
    /\ caption_text = [r \in Requests |-> Unbound]
    /\ raw_structure = [r \in Requests |-> Unbound]
    /\ raw_insights = [r \in Requests |-> Unbound]
    /\ combined_context = [r \in Requests |-> Unbound]
    /\ response = [r \in Requests |-> NoResponse]
    /\ steps = [r \in Requests |-> <<>>]
    /\ calls = [r \in Requests |-> <<>>]
    /\ in_url = ""
    /\ out_id = Unbound
    /\ xpc = "idle"

\* ------------------------------------------------------------------------
\* POST /summarize (main.py 99-161)
\* ------------------------------------------------------------------------

\* a request arrives with body {url: u}
Receive(r) ==
    /\ pc[r] = "idle"
    /\ \E u \in RequestUrls : url' = Bind(url, r, u)
    /\ pc' = [pc EXCEPT ![r] = "extract"]
    /\ UNCHANGED <<video_id, caption_text, raw_structure, raw_insights,
                   combined_context, response, steps, calls>>
    /\ UNCHANGED xvars

\* lines 102-105
ExtractId(r) ==
    /\ pc[r] = "extract"
    /\ LET vid == get_video_id(url[r])
       IN  /\ video_id' = Bind(video_id, r, vid)
           /\ steps' = [steps EXCEPT ![r] = Append(@, "extract")]
           /\ pc' = [pc EXCEPT ![r] = PcAfter("extract", ~IsFalsy(vid))]
           /\ response' = IF IsFalsy(vid)
                          THEN Bind(response, r, BadRequest)
                          ELSE response
    /\ UNCHANGED <<url, caption_text, raw_structure, raw_insights,
                   combined_context, calls>>
    /\ UNCHANGED xvars

\* lines 107-124
FetchTranscript(r) ==
    /\ pc[r] = "fetch"
    /\ steps' = [steps EXCEPT ![r] = Append(@, "fetch")]
    /\ \E o \in FetchOutcomes :
        LET ctor == Call("YouTubeTranscriptApi", "WebshareProxyConfig",
                         o.kind = "construct_raises",
                         IF o.kind = "construct_raises" THEN o.cause ELSE None,
                         None, <<>>)
            fetch == Call("fetch", video_id[r],
                          o.kind = "fetch_raises",
                          IF o.kind = "fetch_raises" THEN o.cause ELSE None,
                          None, o.snippets)
            flat == Flatten(o.snippets)
        IN  IF o.kind = "construct_raises"
            THEN /\ calls' = [calls EXCEPT ![r] = Append(@, ctor)]
                 /\ response' = Bind(response, r, TranscriptUnavailable(o.cause))
                 /\ pc' = [pc EXCEPT ![r] = PcAfter("fetch", FALSE)]
                 /\ UNCHANGED caption_text
            ELSE IF o.kind = "fetch_raises"
            THEN /\ calls' = [calls EXCEPT ![r] = @ \o <<ctor, fetch>>]
                 /\ response' = Bind(response, r, TranscriptUnavailable(o.cause))
                 /\ pc' = [pc EXCEPT ![r] = PcAfter("fetch", FALSE)]
                 /\ UNCHANGED caption_text
            ELSE IF flat.raised
            THEN /\ calls' = [calls EXCEPT ![r] = @ \o <<ctor, fetch>>]
                 /\ response' = Bind(response, r, TranscriptUnavailable(flat.cause))
                 /\ pc' = [pc EXCEPT ![r] = PcAfter("fetch", FALSE)]
                 /\ UNCHANGED caption_text
            ELSE /\ calls' = [calls EXCEPT ![r] = @ \o <<ctor, fetch>>]
                 /\ caption_text' = Bind(caption_text, r, flat.value)
                 /\ pc' = [pc EXCEPT ![r] = PcAfter("fetch", TRUE)]
                 /\ UNCHANGED response
    /\ UNCHANGED <<url, video_id, raw_structure, raw_insights,
                   combined_context>>
    /\ UNCHANGED xvars

\* lines 130-134 (and 160-161 when the call raises)
RunAnalyst(r) ==
    /\ pc[r] = "analyst"
    /\ steps' = [steps EXCEPT ![r] = Append(@, "analyst")]
    /\ LET analyst == get_analyst
       IN  \E o \in GenOutcomes(AnalystContents) :
            /\ calls' = [calls EXCEPT ![r] =
                  Append(@, Call(analyst.name, caption_text[r], o.raised,
                                 o.cause, o.content, <<>>))]
            /\ pc' = [pc EXCEPT ![r] = PcAfter("analyst", ~o.raised)]
            /\ IF o.raised
               THEN /\ response' = Bind(response, r, GenerationError(o.cause))
                    /\ UNCHANGED raw_structure
               ELSE /\ raw_structure' = Bind(raw_structure, r, o.content)
                    /\ UNCHANGED response
    /\ UNCHANGED <<url, video_id, caption_text, raw_insights,
                   combined_context>>
    /\ UNCHANGED xvars

\* lines 136-140 (and 160-161 when the call raises)
RunMiner(r) ==
    /\ pc[r] = "miner"
    /\ steps' = [steps EXCEPT ![r] = Append(@, "miner")]
    /\ LET miner == get_miner
       IN  \E o \in GenOutcomes(MinerContents) :
            /\ calls' = [calls EXCEPT ![r] =
                  Append(@, Call(miner.name, caption_text[r], o.raised,
                                 o.cause, o.content, <<>>))]
            /\ pc' = [pc EXCEPT ![r] = PcAfter("miner", ~o.raised)]
            /\ IF o.raised
               THEN /\ response' = Bind(response, r, GenerationError(o.cause))
                    /\ UNCHANGED raw_insights
               ELSE /\ raw_insights' = Bind(raw_insights, r, o.content)
                    /\ UNCHANGED response
    /\ UNCHANGED <<url, video_id, caption_text, raw_structure,
                   combined_context>>
    /\ UNCHANGED xvars

\* lines 142-161: compose the context, get the editor, run it, answer
RunEditor(r) ==
    /\ pc[r] = "editor"
    /\ steps' = [steps EXCEPT ![r] = Append(@, "editor")]
    /\ combined_context' =
          Bind(combined_context, r,
               CombinedContext(raw_structure[r], raw_insights[r]))
    /\ LET editor == get_editor
       IN  IF editor = None
           THEN \* editor.run raises AttributeError before any request is
                \* sent; `except Exception` turns it into the 500 answer
                /\ response' = Bind(response, r,
                                    GenerationError(NoneTypeRunError))
                /\ pc' = [pc EXCEPT ![r] = PcAfter("editor", FALSE)]
                /\ UNCHANGED calls
           ELSE \E o \in GenOutcomes(EditorContents) :
                /\ calls' = [calls EXCEPT ![r] =
                      Append(@, Call(editor.name, combined_context'[r],
                                     o.raised, o.cause, o.content, <<>>))]
                /\ pc' = [pc EXCEPT ![r] = PcAfter("editor", ~o.raised)]
                /\ response' = Bind(response, r,
                      IF o.raised THEN GenerationError(o.cause)
                      ELSE SummaryResponse(video_id[r], o.content))
    /\ UNCHANGED <<url, video_id, caption_text, raw_structure, raw_insights>>
    /\ UNCHANGED xvars

Next ==
    \E r \in Requests :
        \/ Receive(r)
        \/ ExtractId(r)
        \/ FetchTranscript(r)
        \/ RunAnalyst(r)
        \/ RunMiner(r)
        \/ RunEditor(r)

Spec == Init /\ [][Next]_vars

\* ------------------------------------------------------------------------
\* Direct calls of get_video_id on the bounded inputs
\* ------------------------------------------------------------------------

InitExtract ==
    /\ pc = [r \in Requests |-> "idle"]
    /\ url = [r \in Requests |-> Unbound]
    /\ video_id = [r \in Requests |-> Unbound]
    /\ caption_text = [r \in Requests |-> Unbound]
    /\ raw_structure = [r \in Requests |-> Unbound]
    /\ raw_insights = [r \in Requests |-> Unbound]
    /\ combined_context = [r \in Requests |-> Unbound]
    /\ response = [r \in Requests |-> NoResponse]
    /\ steps = [r \in Requests |-> <<>>]
    /\ calls = [r \in Requests |-> <<>>]
    /\ in_url \in UrlInputs
    /\ out_id = Unbound
    /\ xpc = "call"

CallGetVideoId ==
    /\ xpc = "call"
    /\ out_id' = get_video_id(in_url)
    /\ xpc' = "returned"
    /\ UNCHANGED in_url
    /\ UNCHANGED reqvars

NextExtract == CallGetVideoId

SpecExtract == InitExtract /\ [][NextExtract]_vars

\* ------------------------------------------------------------------------
\* Vocabulary of the properties, stated from the specification's wording
\* ------------------------------------------------------------------------

Done(r) == pc[r] = "done"

\* the characters of a video reference: [0-9A-Za-z_-]
IdChars ==
    {"0","1","2","3","4","5","6","7","8","9",
     "A","B","C","D","E","F","G","H","I","J","K","L","M",
     "N","O","P","Q","R","S","T","U","V","W","X","Y","Z",
     "a","b","c","d","e","f","g","h","i","j","k","l","m",
     "n","o","p","q","r","s","t","u","v","w","x","y","z",
     "_","-"}

\* an 11-character token of IdChars starts at position i of s
IdAt(s, i) ==
    /\ i >= 1
    /\ i + 10 <= Len(s)
    /\ \A k \in i..(i + 10) : SubSeq(s, k, k) \in IdChars

IdFrom(s, i) == SubSeq(s, i, i + 10)

StartsAt(s, i, lit) ==
    /\ i + Len(lit) - 1 <= Len(s)
    /\ SubSeq(s, i, i + Len(lit) - 1) = lit

\* positions of the tokens that follow `v=` or a `/`
StandardTokens(s) ==
    {i \in 1..Len(s) :
        \/ i > 2 /\ StartsAt(s, i - 2, "v=") /\ IdAt(s, i)
        \/ i > 1 /\ StartsAt(s, i - 1, "/") /\ IdAt(s, i)}

\* position at which the match that yields the token at i starts
StandardStart(s, i) ==
    IF i > 2 /\ StartsAt(s, i - 2, "v=") THEN i - 2 ELSE i - 1

\* the token of the leftmost match of the standard pattern
FirstStandardToken(s) ==
    LET first == CHOOSE i \in StandardTokens(s) :
                    \A j \in StandardTokens(s) :
                        StandardStart(s, i) <= StandardStart(s, j)
    IN  IdFrom(s, first)

\* positions of the tokens that follow `youtu.be/`
ShareTokens(s) ==
    {i \in 1..Len(s) : i > 9 /\ StartsAt(s, i - 9, "youtu.be/") /\ IdAt(s, i)}

FirstShareToken(s) ==
    IdFrom(s, CHOOSE i \in ShareTokens(s) : \A j \in ShareTokens(s) : i <= j)

Contains(s, sub) ==
    \E i \in 1..(Len(s) - Len(sub) + 1) : SubSeq(s, i, i + Len(sub) - 1) = sub

StageNames == {"Transcript Analyst", "Insight Miner", "Lead Editor"}

StageCalls(r) == {i \in 1..Len(calls[r]) : calls[r][i].fn \in StageNames}

CallsTo(r, fn) == {i \in 1..Len(calls[r]) : calls[r][i].fn = fn}

Began(r, step) == \E i \in 1..Len(steps[r]) : steps[r][i] = step

Extracted(r) == video_id[r] \notin {Unbound, None, ""}

\* the request got past the transcript fetch and entered the pipeline
ReachedPipeline(r) == caption_text[r] # Unbound

IsPrefix(a, b) == Len(a) <= Len(b) /\ SubSeq(b, 1, Len(a)) = a

ChainOrder == <<"extract", "fetch", "analyst", "miner", "editor">>

CallOrder == <<"YouTubeTranscriptApi", "fetch", "Transcript Analyst",
               "Insight Miner", "Lead Editor">>

\* ------------------------------------------------------------------------
\* Properties
\* ------------------------------------------------------------------------

\* C1: a request whose extraction and transcript fetch succeeded and in
\* which no generative-service call reported an error ends with status 200,
\* the extracted identifier as video_id and the Editor's output, verbatim,
\* as summary.
C1_SuccessReturnsSummary ==
    \A r \in Requests :
        (/\ Done(r)
         /\ Extracted(r)
         /\ ReachedPipeline(r)
         /\ \A i \in 1..Len(calls[r]) : ~calls[r][i].raised)
        => /\ response[r].status = 200
           /\ response[r].video_id = video_id[r]
           /\ \E i \in CallsTo(r, "Lead Editor") :
                 response[r].summary = calls[r][i].content

\* C2: a request whose URL matches neither pattern makes no external
\* invocation at all, creates no transcript, stage output or summary, and
\* ends, once extraction has run, with status 400.
C2_InvalidUrlStopsAt400 ==
    \A r \in Requests :
        (/\ url[r] # Unbound
         /\ StandardTokens(url[r]) = {}
         /\ ShareTokens(url[r]) = {})
        => /\ calls[r] = <<>>
           /\ caption_text[r] = Unbound
           /\ raw_structure[r] = Unbound
           /\ raw_insights[r] = Unbound
           /\ combined_context[r] = Unbound
           /\ response[r].summary = None
           /\ pc[r] \in {"extract", "done"}
           /\ Done(r) => response[r].status = 400

C2_Witness ==
    \E r \in Requests :
        /\ Done(r)
        /\ url[r] = "not a url"
        /\ steps[r] = <<"extract">>
        /\ response[r].status = 400

\* C3: a request whose extraction succeeded and whose fetch step failed
\* (building the client, fetching, or joining the fragments raised) ends
\* with status 404 and a message that contains the cause text, and invokes
\* no generative stage.
C3_FetchFailureIs404 ==
    \A r \in Requests :
        (Done(r) /\ Extracted(r) /\ Began(r, "fetch") /\ ~ReachedPipeline(r))
        => /\ response[r].status = 404
           /\ StageCalls(r) = {}
           /\ LET raised == {i \in 1..Len(calls[r]) : calls[r][i].raised}
              IN  IF raised # {}
                  THEN \A i \in raised :
                          Contains(response[r].detail, calls[r][i].cause)
                  ELSE Contains(response[r].detail,
                                "expected str instance, NoneType found")

C3_Witness ==
    \E r \in Requests :
        /\ Done(r)
        /\ response[r].status = 404
        /\ \E i \in CallsTo(r, "fetch") :
              /\ calls[r][i].raised
              /\ calls[r][i].cause = "proxy unreachable"

\* C4: a request that reached the pipeline and in which a stage failed (the
\* Editor never returned) ends with status 500 and a message that contains
\* the cause text; the failing invocation is the last one made, and neither
\* the Analyst nor the Miner output appears anywhere in the response.
C4_StageFailureIs500 ==
    \A r \in Requests :
        (/\ Done(r)
         /\ ReachedPipeline(r)
         /\ ~\E i \in CallsTo(r, "Lead Editor") : ~calls[r][i].raised)
        => /\ response[r].status = 500
           /\ response[r].summary = None
           /\ response[r].video_id = None
           /\ \A i \in 1..Len(calls[r]) :
                 calls[r][i].raised
                 => /\ i = Len(calls[r])
                    /\ Contains(response[r].detail, calls[r][i].cause)
           /\ (\A i \in 1..Len(calls[r]) : ~calls[r][i].raised)
                 => Contains(response[r].detail, NoneTypeRunError)
           /\ \A i \in StageCalls(r) :
                 ~calls[r][i].raised
                 => ~Contains(response[r].detail, calls[r][i].content)

C4_Witness ==
    \E r \in Requests :
        /\ Done(r)
        /\ raw_structure[r] # Unbound
        /\ \E i \in CallsTo(r, "Insight Miner") : calls[r][i].raised
        /\ ~Began(r, "editor")
        /\ response[r].status = 500

\* C5 (as claimed): get_video_id returns every token that follows `v=` or a
\* `/` in the string.
C5_ReturnsAnyStandardToken ==
    xpc = "returned"
    => \A i \in StandardTokens(in_url) : out_id = IdFrom(in_url, i)

\* C5 (amended): when the string holds a token that follows `v=` or a `/`,
\* get_video_id returns the token of the leftmost such occurrence.
C5_ReturnsFirstStandardToken ==
    (xpc = "returned" /\ StandardTokens(in_url) # {})
    => out_id = FirstStandardToken(in_url)

\* an input with a `/` token and a later, different `v=` token
C5_Witness ==
    /\ xpc = "returned"
    /\ \E i, j \in StandardTokens(in_url) :
          /\ i < j
          /\ StartsAt(in_url, j - 2, "v=")
          /\ IdFrom(in_url, i) # IdFrom(in_url, j)
          /\ out_id = IdFrom(in_url, i)

\* C6: for https://youtu.be/<token> followed by any trailing characters,
\* get_video_id returns exactly <token>.
C6_ShareLinkReturnsToken ==
    (/\ xpc = "returned"
     /\ StartsAt(in_url, 1, "https://youtu.be/")
     /\ IdAt(in_url, 18))
    => out_id = IdFrom(in_url, 18)

C6_Witness ==
    /\ xpc = "returned"
    /\ in_url = "https://youtu.be/JDYtbVxtBhw?t=5"
    /\ out_id = "JDYtbVxtBhw"

\* C7: in a request whose Analyst and Miner both returned, the Analyst and
\* the Miner were each invoked with the flattened transcript and the Editor
\* was invoked with one string that contains the Analyst output, the Miner
\* output and the compilation instruction.
C7_StageInputs ==
    \A r \in Requests :
        (Done(r) /\ Began(r, "editor"))
        => /\ \E i \in CallsTo(r, "Transcript Analyst") :
                 calls[r][i].arg = caption_text[r]
           /\ \E i \in CallsTo(r, "Insight Miner") :
                 calls[r][i].arg = caption_text[r]
           /\ \E i \in CallsTo(r, "Lead Editor") :
                 /\ Contains(calls[r][i].arg, raw_structure[r])
                 /\ Contains(calls[r][i].arg, raw_insights[r])
                 /\ Contains(calls[r][i].arg, CompileInstruction)

\* C8: the steps a request began form a prefix of extract, fetch, Analyst,
\* Miner, Editor (so each is attempted at most once, in that order) and so
\* do its external invocations; a step was begun only after the one before
\* it succeeded; and a request whose extraction succeeded and that is past
\* the fetch step attempted the fetch exactly once.
C8_StrictChain ==
    \A r \in Requests :
        /\ IsPrefix(steps[r], ChainOrder)
        /\ IsPrefix([i \in 1..Len(calls[r]) |-> calls[r][i].fn], CallOrder)
        /\ \A i \in 1..Len(calls[r]) : calls[r][i].raised => i = Len(calls[r])
        /\ Began(r, "fetch") => Extracted(r)
        /\ Began(r, "analyst") => ReachedPipeline(r)
        /\ Began(r, "miner") => raw_structure[r] # Unbound
        /\ Began(r, "editor") => raw_insights[r] # Unbound
        /\ (Extracted(r) /\ pc[r] \notin {"idle", "extract", "fetch"})
              => Cardinality({i \in 1..Len(steps[r]) : steps[r][i] = "fetch"}) = 1
        /\ (Done(r) /\ ~Extracted(r)) => steps[r] = <<"extract">>

C8_Witness ==
    \E r \in Requests :
        /\ Done(r)
        /\ steps[r] = ChainOrder
        /\ Cardinality(CallsTo(r, "fetch")) = 1
        /\ Len(calls[r]) = 4

\* C9: when both patterns match the string, get_video_id returns the
\* capture of the leftmost match of the standard pattern.
C9_StandardPatternWins ==
    (/\ xpc = "returned"
     /\ StandardTokens(in_url) # {}
     /\ ShareTokens(in_url) # {})
    => out_id = FirstStandardToken(in_url)

\* an input both patterns match on which the share-link pattern captures
\* another identifier than the one returned
C9_Witness ==
    /\ xpc = "returned"
    /\ StandardTokens(in_url) # {}
    /\ ShareTokens(in_url) # {}
    /\ FirstShareToken(in_url) # out_id
    /\ out_id = FirstStandardToken(in_url)

\* what one request holds
Frame(r) ==
    <<pc[r], url[r], video_id[r], caption_text[r], raw_structure[r],
      raw_insights[r], combined_context[r], response[r], steps[r], calls[r]>>

FramePrime(r) ==
    <<pc'[r], url'[r], video_id'[r], caption_text'[r], raw_structure'[r],
      raw_insights'[r], combined_context'[r], response'[r], steps'[r],
      calls'[r]>>

\* a step of one request leaves everything the other requests hold as it was
IsolatedStep ==
    \A r \in Requests :
        pc'[r] # pc[r]
        => \A q \in Requests \ {r} : FramePrime(q) = Frame(q)

\* when a request binds video_id it is the identifier of its own URL, and
\* when it answers, its response equals that of every finished request with
\* the same URL and the same results of its own external calls
OwnInputsDecide ==
    \A r \in Requests :
        /\ (video_id'[r] # video_id[r] /\ StandardTokens(url[r]) # {})
              => video_id'[r] = FirstStandardToken(url[r])
        /\ response'[r] # response[r]
              => \A q \in Requests :
                    (pc'[q] = "done" /\ url'[q] = url'[r] /\ calls'[q] = calls'[r])
                    => response'[q] = response'[r]

\* C10: with requests interleaving arbitrarily, no step of one request
\* changes what another holds, and each response depends only on the
\* request's own URL and on the results of its own external calls.
C10_RequestsIsolated == [][IsolatedStep /\ OwnInputsDecide]_vars

C10_Witness ==
    \E r, q \in Requests :
        /\ r # q
        /\ pc[r] = "miner"
        /\ pc[q] = "analyst"
        /\ video_id[r] # video_id[q]
        /\ caption_text[r] # caption_text[q]

====
